---- MODULE Spec2Model ----
(***************************************************************************)
(* Model of fix_nullables.py: two regular-expression rewriters over C#     *)
(* source text and the file processor that applies them to a fixed list    *)
(* of files.                                                               *)
(*                                                                         *)
(* A text is a sequence of lexemes.  Each lexeme stands for the characters *)
(* it spells: " " and "\n" are single whitespace characters, "=", ".",     *)
(* "(", ")", ";", "?" are single punctuation characters, and every other   *)
(* lexeme ("T", "v", "r", "await", "ReadByIdAsync", "FirstOrDefault",      *)
(* "Assert", "NotNull") is a string of word characters.  Adjacent word     *)
(* lexemes spell one longer word, as adjacent characters do.  No word      *)
(* lexeme other than the literal itself spells any part of "await",        *)
(* "ReadByIdAsync" or "FirstOrDefault" that a regex literal could match    *)
(* across a lexeme boundary, so matching lexeme by lexeme is matching      *)
(* character by character.                                                 *)
(***************************************************************************)
EXTENDS Integers, Sequences, FiniteSets, TLC

VARIABLES
    disk,       \* disk[i]: the content of files[i] on disk, or Absent
    orig,       \* disk as it was when the run started (history)
    pc,         \* the position of the program
    idx,        \* the position of the for loop of __main__ in files
    original,   \* process_file: the local `original`
    content,    \* process_file: the local `content`
    applied,    \* the rewriters applied to `content` so far, in order
    raised,     \* raised[i]: the exception raised in process_file(files[i])
    returned,   \* returned[i]: what process_file(files[i]) returned
    wstate,     \* wstate[i]: "none", "opened" for writing, or "written"
    calls,      \* calls[i]: the number of calls process_file(files[i])
    console     \* the lines printed so far

vars == <<disk, orig, pc, idx, original, content, applied, raised, returned,
          wstate, calls, console>>

(***************************************************************************)
(* Character classes of the regular expressions.                           *)
(***************************************************************************)
SpaceChars == {" ", "\n"}

WordLexemes == {"T", "v", "r", "await", "ReadByIdAsync", "FirstOrDefault",
                "Assert", "NotNull"}

Lexemes == SpaceChars \cup WordLexemes \cup {"=", ".", "(", ")", ";", "?"}

\* [^)], [^;] and [^=] as sets of lexemes
NotRParen == Lexemes \ {")"}

NotSemi == Lexemes \ {";"}

NotEq == Lexemes \ {"="}

\* t[p] when p is a position of t, and a value that is no lexeme otherwise
At(t, p) == IF p >= 1 /\ p <= Len(t) THEN t[p] ELSE "<end>"

\* t[from..to-1]
Slice(t, from, to) == SubSeq(t, from, to - 1)

\* A greedy one-class repetition (\s+, \w+, [^)]+, [^;]+) started at p: the
\* first position at or after p whose character is not in the class.
RECURSIVE RunEnd(_, _, _)
RunEnd(t, p, Cls) ==
    IF p <= Len(t) /\ t[p] \in Cls THEN RunEnd(t, p + 1, Cls) ELSE p

NoMatch == [ok |-> FALSE]

(***************************************************************************)
(* (\s+)(\w+)\s+(\w+)\s*=  : the common head of both patterns, matched at  *)
(* position p.  Every repetition is over one class and is followed by a    *)
(* character outside that class, so the greedy match is the only one.      *)
(***************************************************************************)
DeclHead(t, p) ==
    LET a == RunEnd(t, p, SpaceChars)
        b == RunEnd(t, a, WordLexemes)
        c == RunEnd(t, b, SpaceChars)
        d == RunEnd(t, c, WordLexemes)
        e == RunEnd(t, d, SpaceChars)
    IN  IF a > p /\ b > a /\ c > b /\ d > c /\ At(t, e) = "="
        THEN [ok |-> TRUE, indent |-> Slice(t, p, a), type |-> Slice(t, a, b),
              var |-> Slice(t, c, d), eq |-> e]
        ELSE NoMatch

(***************************************************************************)
(* (\s+)(\w+)\s+(\w+)\s*=\s*await\s+\w+\.ReadByIdAsync\([^)]+\);           *)
(* matched at position p.                                                  *)
(***************************************************************************)
ReadByIdMatchAt(t, p) ==
    LET h == DeclHead(t, p)
    IN  IF ~h.ok THEN NoMatch
        ELSE
        LET f == RunEnd(t, h.eq + 1, SpaceChars)
            g == RunEnd(t, f + 1, SpaceChars)
            w == RunEnd(t, g, WordLexemes)
            i == RunEnd(t, w + 3, NotRParen)
        IN  IF /\ At(t, f) = "await"
               /\ g > f + 1
               /\ w > g
               /\ At(t, w) = "."
               /\ At(t, w + 1) = "ReadByIdAsync"
               /\ At(t, w + 2) = "("
               /\ i > w + 3
               /\ At(t, i) = ")"
               /\ At(t, i + 1) = ";"
            THEN [ok |-> TRUE, from |-> p, to |-> i + 2, indent |-> h.indent,
                  type |-> h.type, var |-> h.var, eq |-> h.eq,
                  rhs |-> Slice(t, f, i + 1)]
            ELSE NoMatch

\* \.FirstOrDefault\([^)]*\); matched at position k
FodTailAt(t, k) ==
    LET q == RunEnd(t, k + 3, NotRParen)
    IN  /\ At(t, k) = "."
        /\ At(t, k + 1) = "FirstOrDefault"
        /\ At(t, k + 2) = "("
        /\ At(t, q) = ")"
        /\ At(t, q + 1) = ";"

(***************************************************************************)
(* (\s+)(\w+)\s+(\w+)\s*=\s*([^;]+\.FirstOrDefault\([^)]*\));              *)
(* matched at position p.  [^;]+ is greedy and gives characters back one   *)
(* at a time, so the tail is matched at the last position k that the       *)
(* repetition can reach; \s* gives whitespace back only when no k after    *)
(* the whole run of whitespace works, and then [^;]+ is that one           *)
(* whitespace character.                                                   *)
(***************************************************************************)
FirstOrDefaultMatchAt(t, p) ==
    LET h == DeclHead(t, p)
    IN  IF ~h.ok THEN NoMatch
        ELSE
        LET f    == RunEnd(t, h.eq + 1, SpaceChars)
            semi == RunEnd(t, f, NotSemi)
            ks   == {k \in (f + 1)..(semi - 1) : FodTailAt(t, k)}
            back == f > h.eq + 1 /\ FodTailAt(t, f)
            k    == IF ks # {} THEN CHOOSE x \in ks : \A y \in ks : y <= x
                    ELSE f
            s    == IF ks # {} THEN f ELSE f - 1
            q    == RunEnd(t, k + 3, NotRParen)
        IN  IF ks # {} \/ back
            THEN [ok |-> TRUE, from |-> p, to |-> q + 2, indent |-> h.indent,
                  type |-> h.type, var |-> h.var, eq |-> h.eq,
                  rhs |-> Slice(t, s, q + 1)]
            ELSE NoMatch

(***************************************************************************)
(* str.split("=")[1]: the part of s between its first "=" and its second   *)
(* (or its end); str.strip(): s without leading and trailing whitespace.   *)
(***************************************************************************)
SplitEq1(s) ==
    LET e1 == RunEnd(s, 1, NotEq)
        e2 == RunEnd(s, e1 + 1, NotEq)
    IN  Slice(s, e1 + 1, e2)

RECURSIVE LastNonSpace(_, _)
LastNonSpace(s, n) ==
    IF n >= 1 /\ s[n] \in SpaceChars THEN LastNonSpace(s, n - 1) ELSE n

Strip(s) ==
    LET a == RunEnd(s, 1, SpaceChars)
        b == LastNonSpace(s, Len(s))
    IN  IF a > b THEN <<>> ELSE SubSeq(s, a, b)

\* {indent}Assert.NotNull({var_name});
NotNullLine(indent, var) ==
    indent \o <<"Assert", ".", "NotNull", "(">> \o var \o <<")", ";">>

\* The expression the read-by-id replacer puts after "= await "
ReadByIdExpr(group0) == Strip(SplitEq1(group0))

\* fix_read_by_id_pattern.replacer
ReadByIdReplacer(t, m) ==
    m.indent \o m.type \o <<"?", " ">> \o m.var
        \o <<" ", "=", " ", "await", " ">>
        \o ReadByIdExpr(Slice(t, m.from, m.to))
        \o <<"\n">> \o NotNullLine(m.indent, m.var)

\* fix_first_or_default_pattern.replacer
FirstOrDefaultReplacer(t, m) ==
    m.indent \o m.type \o <<"?", " ">> \o m.var \o <<" ", "=", " ">>
        \o m.rhs \o <<";", "\n">> \o NotNullLine(m.indent, m.var)

(***************************************************************************)
(* re.sub(pattern, replacer, content): the leftmost match at or after pos  *)
(* is replaced, and the search goes on where that match ended.             *)
(***************************************************************************)
\* The two rules: "r" is read-by-id, "f" is first-or-default
MatchAt(rule, t, p) ==
    IF rule = "r" THEN ReadByIdMatchAt(t, p) ELSE FirstOrDefaultMatchAt(t, p)

Replacer(rule, t, m) ==
    IF rule = "r" THEN ReadByIdReplacer(t, m) ELSE FirstOrDefaultReplacer(t, m)

RECURSIVE SubFrom(_, _, _, _)
SubFrom(rule, t, pos, p) ==
    IF p > Len(t) THEN Slice(t, pos, Len(t) + 1)
    ELSE LET m == MatchAt(rule, t, p)
         IN  IF m.ok
             THEN Slice(t, pos, p) \o Replacer(rule, t, m)
                      \o SubFrom(rule, t, m.to, m.to)
             ELSE SubFrom(rule, t, pos, p + 1)

fix_read_by_id_pattern(t) == SubFrom("r", t, 1, 1)

fix_first_or_default_pattern(t) == SubFrom("f", t, 1, 1)

\* The matches re.sub finds: the non-overlapping leftmost matches from p on
RECURSIVE MatchesFrom(_, _, _)
MatchesFrom(rule, t, p) ==
    IF p > Len(t) THEN <<>>
    ELSE LET m == MatchAt(rule, t, p)
         IN  IF m.ok THEN <<m>> \o MatchesFrom(rule, t, m.to)
             ELSE MatchesFrom(rule, t, p + 1)

ReadByIdMatches(t) == MatchesFrom("r", t, 1)

FirstOrDefaultMatches(t) == MatchesFrom("f", t, 1)

(***************************************************************************)
(* The input texts.                                                        *)
(***************************************************************************)
\* The longest input of the rewriters, in fragments
MaxFrags == 5

\* The longest file, in statements
MaxStmts == 1

Fragments ==
    << <<" ">>,
       <<"\n", " ">>,
       <<"T", " ", "v", " ", "=", " ">>,
       <<"await", " ", "r", ".", "ReadByIdAsync", "(">>,
       <<"r", ".", "FirstOrDefault", "(">>,
       <<"v">>,
       <<"v", "=", "v">>,
       <<")", ";">> >>

Statements ==
    << <<"\n", " ", "v", " ", "=", " ", "v", ";">>,
       <<"\n", " ", "T", " ", "v", " ", "=", " ", "r", ".",
         "FirstOrDefault", "(", ")", ";">>,
       <<" ", "T", " ", "v", " ", "=", " ", "await", " ", "r", ".",
         "ReadByIdAsync", "(", "v", ")", ";",
         "\n", " ", "T", " ", "v", " ", "=", " ", "r", ".",
         "FirstOrDefault", "(", "v", ")", ";">> >>

\* The pieces parts[choice[1]], parts[choice[2]], ... one after the other
RECURSIVE Concat(_, _)
Concat(parts, choice) ==
    IF choice = <<>> THEN <<>>
    ELSE parts[Head(choice)] \o Concat(parts, Tail(choice))

TextsOf(parts, max) ==
    UNION {{Concat(parts, ch) : ch \in [1..n -> 1..Len(parts)]} : n \in 0..max}

(***************************************************************************)
(* The file processor.                                                     *)
(***************************************************************************)
\* The length of the list `files` of __main__
NumFiles == 2

Files == 1..NumFiles

\* What disk[i] is when files[i] does not exist: no text (not a sequence of
\* lexemes)
Absent == <<"<absent>">>

\* The exceptions the steps of process_file raise
Exceptions ==
    {"FileNotFoundError", "PermissionError", "UnicodeDecodeError", "OSError"}

\* Faulty variant of Caught: except OSError, which a decoding error is not
CaughtOSErrorOnly(e) == e \in {"FileNotFoundError", "PermissionError", "OSError"}

\* except Exception: every exception of the steps is an Exception
Caught(e) == e \in Exceptions

\* Faulty variant of ContentChanged: the file is written whether it changed or not
AlwaysChanged(new, old) == TRUE

\* content != original
ContentChanged(new, old) == new # old

\* Faulty variant of OpenTruncate: the file is opened to append, open(filepath, 'a')
OpenAppend(old) == old

\* open(filepath, 'w') leaves the file empty
OpenTruncate(old) == <<>>

\* Faulty variant of WriteTarget: every file is written to the first path of the list
WriteTargetFirst(i) == 1

\* The file that open(filepath, 'w') opens in process_file(files[i])
WriteTarget(i) == i

\* for file in files: the position after files[i]
NextFile(i) == i + 1

\* What process_file returns on its three ways out ("none" in returned[i]
\* is a call that has not returned)
ReturnFixed == "True"

ReturnNoChange == "False"

\* Faulty variant of ReturnError: the except clause returns True
ReturnErrorTrue == "True"

ReturnError == "False"

\* The three lines process_file prints
FixedLine(i) == [kind |-> "Fixed", path |-> i, msg |-> "none"]

NoChangeLine(i) == [kind |-> "No changes needed", path |-> i, msg |-> "none"]

\* Faulty variant of ErrorLine: an error is reported as "No changes needed"
ErrorLineAsNoChange(i, e) == NoChangeLine(i)

ErrorLine(i, e) == [kind |-> "Error processing", path |-> i, msg |-> e]

\* How much of a text of n lexemes a failed write may leave in the file
FailPoints(n) == {0, 1, n \div 2, n - 1, n} \cap 0..n

\* fix_first_or_default_pattern(fix_read_by_id_pattern(content))
Transform(t) == fix_first_or_default_pattern(fix_read_by_id_pattern(t))

Init ==
    /\ disk \in [Files -> TextsOf(Statements, MaxStmts) \cup {Absent}]
    /\ orig = disk
    /\ pc = "main"
    /\ idx = 1
    /\ original = <<>>
    /\ content = <<>>
    /\ applied = <<>>
    /\ raised = [i \in Files |-> "none"]
    /\ returned = [i \in Files |-> "none"]
    /\ wstate = [i \in Files |-> "none"]
    /\ calls = [i \in Files |-> 0]
    /\ console = <<>>

\* process_file(file) is called for the next file of the list
CallProcessFile ==
    /\ pc = "main"
    /\ idx <= NumFiles
    /\ pc' = "open_r"
    /\ calls' = [calls EXCEPT ![idx] = @ + 1]
    /\ UNCHANGED <<disk, orig, idx, original, content, applied, raised,
                   returned, wstate, console>>

\* An exception e leaves the try block
Raise(e) ==
    /\ raised' = [raised EXCEPT ![idx] = e]
    /\ pc' = "except"

\* open(filepath, 'r') succeeds
OpenReadOk ==
    /\ pc = "open_r"
    /\ disk[idx] # Absent
    /\ pc' = "read"
    /\ UNCHANGED <<disk, orig, idx, original, content, applied, raised,
                   returned, wstate, calls, console>>

\* open(filepath, 'r') fails: no such file, or a file that may not be read
OpenReadFail ==
    /\ pc = "open_r"
    /\ Raise(IF disk[idx] = Absent THEN "FileNotFoundError"
             ELSE "PermissionError")
    /\ UNCHANGED <<disk, orig, idx, original, content, applied, returned,
                   wstate, calls, console>>

\* content = f.read(); original = content
ReadOk ==
    /\ pc = "read"
    /\ content' = disk[idx]
    /\ original' = disk[idx]
    /\ pc' = "fix_read_by_id"
    /\ UNCHANGED <<disk, orig, idx, applied, raised, returned, wstate, calls,
                   console>>

\* f.read() fails: the file is not valid UTF-8
ReadFail ==
    /\ pc = "read"
    /\ Raise("UnicodeDecodeError")
    /\ UNCHANGED <<disk, orig, idx, original, content, applied, returned,
                   wstate, calls, console>>

\* content = fix_read_by_id_pattern(content)
ApplyReadById ==
    /\ pc = "fix_read_by_id"
    /\ content' = fix_read_by_id_pattern(content)
    /\ applied' = Append(applied, "r")
    /\ pc' = "fix_first_or_default"
    /\ UNCHANGED <<disk, orig, idx, original, raised, returned, wstate, calls,
                   console>>

\* content = fix_first_or_default_pattern(content)
ApplyFirstOrDefault ==
    /\ pc = "fix_first_or_default"
    /\ content' = fix_first_or_default_pattern(content)
    /\ applied' = Append(applied, "f")
    /\ pc' = "compare"
    /\ UNCHANGED <<disk, orig, idx, original, raised, returned, wstate, calls,
                   console>>

\* if content != original
Compare ==
    /\ pc = "compare"
    /\ pc' = IF ContentChanged(content, original) THEN "open_w"
             ELSE "no_change"
    /\ UNCHANGED <<disk, orig, idx, original, content, applied, raised,
                   returned, wstate, calls, console>>

\* open(filepath, 'w') succeeds and truncates the file
OpenWriteOk ==
    /\ pc = "open_w"
    /\ disk' = [disk EXCEPT ![WriteTarget(idx)] = OpenTruncate(@)]
    /\ wstate' = [wstate EXCEPT ![idx] = "opened"]
    /\ pc' = "write"
    /\ UNCHANGED <<orig, idx, original, content, applied, raised, returned,
                   calls, console>>

\* open(filepath, 'w') fails
OpenWriteFail ==
    /\ pc = "open_w"
    /\ Raise("PermissionError")
    /\ UNCHANGED <<disk, orig, idx, original, content, applied, returned,
                   wstate, calls, console>>

\* f.write(content) and the close of the file succeed
WriteOk ==
    /\ pc = "write"
    /\ disk' = [disk EXCEPT ![WriteTarget(idx)] = @ \o content]
    /\ wstate' = [wstate EXCEPT ![idx] = "written"]
    /\ pc' = "fixed"
    /\ UNCHANGED <<orig, idx, original, content, applied, raised, returned,
                   calls, console>>

\* f.write(content) or the close of the file fails after k lexemes
WriteFail ==
    /\ pc = "write"
    /\ \E k \in FailPoints(Len(content)) :
          disk' = [disk EXCEPT ![WriteTarget(idx)] = @ \o SubSeq(content, 1, k)]
    /\ Raise("OSError")
    /\ UNCHANGED <<orig, idx, original, content, applied, returned, wstate,
                   calls, console>>

\* process_file returns r to the loop of __main__, which goes on
Return(r) ==
    /\ returned' = [returned EXCEPT ![idx] = r]
    /\ idx' = NextFile(idx)
    /\ pc' = "main"
    /\ original' = <<>>
    /\ content' = <<>>
    /\ applied' = <<>>

\* print(f"Fixed: {filepath}"); return True
PrintFixed ==
    /\ pc = "fixed"
    /\ console' = Append(console, FixedLine(idx))
    /\ Return(ReturnFixed)
    /\ UNCHANGED <<disk, orig, raised, wstate, calls>>

\* print(f"No changes needed: {filepath}"); return False
PrintNoChange ==
    /\ pc = "no_change"
    /\ console' = Append(console, NoChangeLine(idx))
    /\ Return(ReturnNoChange)
    /\ UNCHANGED <<disk, orig, raised, wstate, calls>>

\* except Exception as e: print(...); return False.  An exception that the
\* clause does not catch leaves process_file and ends the run.
Except ==
    /\ pc = "except"
    /\ IF Caught(raised[idx])
       THEN /\ console' = Append(console, ErrorLine(idx, raised[idx]))
            /\ Return(ReturnError)
       ELSE /\ pc' = "uncaught"
            /\ UNCHANGED <<console, returned, idx, original, content, applied>>
    /\ UNCHANGED <<disk, orig, raised, wstate, calls>>

\* The list is exhausted: the program ends
MainExit ==
    /\ pc = "main"
    /\ idx > NumFiles
    /\ pc' = "exit"
    /\ UNCHANGED <<disk, orig, idx, original, content, applied, raised,
                   returned, wstate, calls, console>>

Next ==
    \/ CallProcessFile
    \/ OpenReadOk
    \/ OpenReadFail
    \/ ReadOk
    \/ ReadFail
    \/ ApplyReadById
    \/ ApplyFirstOrDefault
    \/ Compare
    \/ OpenWriteOk
    \/ OpenWriteFail
    \/ WriteOk
    \/ WriteFail
    \/ PrintFixed
    \/ PrintNoChange
    \/ Except
    \/ MainExit

Spec == Init /\ [][Next]_vars

(***************************************************************************)
(* The rewriters alone: an input text, rewritten as process_file does, a   *)
(* second time, and in the opposite order.                                 *)
(***************************************************************************)
RewriteInit ==
    /\ original \in TextsOf(Fragments, MaxFrags)
    /\ content = original
    /\ applied = <<>>
    /\ pc = "rewrite"
    /\ idx = 1
    /\ disk = [i \in Files |-> Absent]
    /\ orig = disk
    /\ raised = [i \in Files |-> "none"]
    /\ returned = [i \in Files |-> "none"]
    /\ wstate = [i \in Files |-> "none"]
    /\ calls = [i \in Files |-> 0]
    /\ console = <<>>

RewriteReadById ==
    /\ pc = "rewrite"
    /\ applied \in {<<>>, <<"r", "f">>, <<"f">>}
    /\ content' = fix_read_by_id_pattern(content)
    /\ applied' = Append(applied, "r")
    /\ UNCHANGED <<disk, orig, pc, idx, original, raised, returned, wstate,
                   calls, console>>

RewriteFirstOrDefault ==
    /\ pc = "rewrite"
    /\ applied \in {<<>>, <<"r">>, <<"r", "f", "r">>}
    /\ content' = fix_first_or_default_pattern(content)
    /\ applied' = Append(applied, "f")
    /\ UNCHANGED <<disk, orig, pc, idx, original, raised, returned, wstate,
                   calls, console>>

RewriteNext == RewriteReadById \/ RewriteFirstOrDefault

RewriteSpec == RewriteInit /\ [][RewriteNext]_vars

(***************************************************************************)
(* Properties.                                                             *)
(***************************************************************************)
Range(q) == {q[k] : k \in 1..Len(q)}

IsPrefix(p, t) == Len(p) <= Len(t) /\ p = SubSeq(t, 1, Len(p))

\* The lines printed for files[i]
LinesOf(i) == SelectSeq(console, LAMBDA l : l.path = i)

HasNoMatch(t) == ReadByIdMatches(t) = <<>> /\ FirstOrDefaultMatches(t) = <<>>

\* The terminal states of a file
Changed(i) == wstate[i] = "written"

Errored(i) == raised[i] # "none"

Unchanged(i) == wstate[i] = "none" /\ raised[i] = "none"

\* C1 as stated: in every reachable state every file holds its original
\* content or the complete transformed text, never empty, truncated or
\* partial content.
C1_OriginalOrComplete ==
    \A i \in Files :
        \/ disk[i] = orig[i]
        \/ orig[i] # Absent /\ disk[i] = Transform(orig[i])

\* C1 as amended: a file holds its original content until it is opened for
\* writing; from then on it holds a prefix (empty, partial or whole) of the
\* complete transformed text, and the whole of it once process_file has
\* returned True.
C1_OriginalOrPrefix ==
    \A i \in Files :
        /\ wstate[i] = "none" => disk[i] = orig[i]
        /\ wstate[i] # "none" =>
              /\ orig[i] # Absent
              /\ IsPrefix(disk[i], Transform(orig[i]))
        /\ returned[i] = "True" => disk[i] = Transform(orig[i])

\* A failed write has left a file truncated: neither empty nor complete
C1_Truncated ==
    \E i \in Files :
        /\ wstate[i] = "opened"
        /\ returned[i] = "False"
        /\ Len(disk[i]) > 0
        /\ Len(disk[i]) < Len(Transform(orig[i]))

\* The positions at which the code has a next step to take
Running ==
    {"main", "open_r", "read", "fix_read_by_id", "fix_first_or_default",
     "compare", "open_w", "write", "fixed", "no_change", "except"}

\* C2: whichever steps raise an error, the exception never leaves
\* process_file: the run is either at its normal end or at a position from
\* which it goes on; a file that has raised an error has returned or is
\* about to; once a file has returned the loop is at a later file; and at
\* the end every file of the list has been processed.
C2_EveryFileProcessed ==
    /\ pc \in Running \cup {"exit"}
    /\ pc = "exit" => \A i \in Files : returned[i] # "none" /\ calls[i] = 1
    /\ \A i \in Files : raised[i] # "none" =>
          \/ returned[i] = "False"
          \/ idx = i /\ pc = "except"
    /\ \A i \in Files : returned[i] # "none" =>
          /\ idx > i
          /\ i < NumFiles => calls[i + 1] = 1 \/ (pc = "main" /\ idx = i + 1)

\* The run has ended; the first file raised an error, the second was fixed
C2_ErrorThenFixed ==
    /\ pc = "exit"
    /\ raised[1] # "none"
    /\ returned[2] = "True"

\* C3 as stated: process_file returns True iff the file was written; when
\* it returns False, also after an error raised once the file was opened
\* for writing, the file is what it was before the call; when it returns
\* True the file holds the new text.
C3_FalseLeavesFile ==
    \A i \in Files : returned[i] # "none" =>
        /\ returned[i] = "True" <=> wstate[i] # "none"
        /\ returned[i] = "False" => disk[i] = orig[i]
        /\ returned[i] = "True" => disk[i] = Transform(orig[i])

\* C3 as amended: process_file returns True iff the write completed without
\* an error, and then the file holds the new text, which differs from the
\* old; when it returns False and the file was not opened for writing, the
\* file is what it was before the call; when it returns False after an error
\* raised once the file was opened for writing, the file holds a prefix of
\* the new text.
C3_TrueIffWriteCompleted ==
    \A i \in Files : returned[i] # "none" =>
        /\ returned[i] = "True" <=> wstate[i] = "written"
        /\ returned[i] = "True" =>
              disk[i] = Transform(orig[i]) /\ disk[i] # orig[i]
        /\ returned[i] = "False" /\ wstate[i] = "none" => disk[i] = orig[i]
        /\ returned[i] = "False" /\ wstate[i] # "none" =>
              /\ raised[i] # "none"
              /\ IsPrefix(disk[i], Transform(orig[i]))

\* process_file returned False and left the file changed
C3_FalseAfterWriteError ==
    \E i \in Files :
        /\ returned[i] = "False"
        /\ wstate[i] = "opened"
        /\ disk[i] # orig[i]

\* C4: a text without a match of either pattern is returned unchanged by
\* both rewriters; process_file never opens such a file for writing, leaves
\* it as it is and, when it could read it, prints "No changes needed" and
\* returns False.
C4_NoMatchNoWrite ==
    \A i \in Files : orig[i] # Absent /\ HasNoMatch(orig[i]) =>
        /\ fix_read_by_id_pattern(orig[i]) = orig[i]
        /\ fix_first_or_default_pattern(orig[i]) = orig[i]
        /\ wstate[i] = "none"
        /\ disk[i] = orig[i]
        /\ idx = i => pc \notin {"open_w", "write", "fixed"}
        /\ idx = i /\ pc = "compare" => content = original
        /\ returned[i] # "none" /\ raised[i] = "none" =>
              /\ returned[i] = "False"
              /\ LinesOf(i) = <<NoChangeLine(i)>>

\* A file that is not empty and holds no match has been processed
C4_NoMatchProcessed ==
    \E i \in Files :
        /\ orig[i] \notin {Absent, <<>>}
        /\ HasNoMatch(orig[i])
        /\ returned[i] = "False"
        /\ raised[i] = "none"

\* C8: process_file is called once for a file; nothing is printed for the
\* file before it returns, and exactly one line after, and the file is then
\* in exactly one of the states Changed, Unchanged, Errored, which the line
\* names: "Fixed" iff Changed, "No changes needed" iff Unchanged, "Error
\* processing" iff Errored.  For a path that does not exist the call returns
\* False with an error line.
C8_OneLineNamesState ==
    \A i \in Files :
        /\ calls[i] <= 1
        /\ returned[i] = "none" => LinesOf(i) = <<>>
        /\ returned[i] # "none" =>
              /\ Len(LinesOf(i)) = 1
              /\ Cardinality({s \in {"Changed", "Unchanged", "Errored"} :
                    \/ s = "Changed" /\ Changed(i)
                    \/ s = "Unchanged" /\ Unchanged(i)
                    \/ s = "Errored" /\ Errored(i)}) = 1
              /\ LinesOf(i)[1].kind = "Fixed" <=> Changed(i)
              /\ LinesOf(i)[1].kind = "No changes needed" <=> Unchanged(i)
              /\ LinesOf(i)[1].kind = "Error processing" <=> Errored(i)
              /\ Errored(i) =>
                    LinesOf(i)[1].msg = raised[i] /\ returned[i] = "False"
              /\ Changed(i) => returned[i] = "True"
              /\ orig[i] = Absent => Errored(i) /\ disk[i] = Absent

\* The run has ended with one path that does not exist and one fixed file
C8_MissingAndFixed ==
    /\ pc = "exit"
    /\ orig[1] = Absent
    /\ Errored(1)
    /\ Changed(2)

\* One step of the run, as C10 has it
SequentialStep ==
    /\ \A j \in Files : j # idx =>
          /\ disk'[j] = disk[j]
          /\ returned'[j] = returned[j]
          /\ raised'[j] = raised[j]
          /\ wstate'[j] = wstate[j]
          /\ calls'[j] = calls[j]
    /\ idx' \in {idx, idx + 1}
    /\ idx' = idx + 1 =>
          /\ returned'[idx] # "none"
          /\ Len(console') = Len(console) + 1
          /\ console'[Len(console')].path = idx
          /\ wstate[idx] = "opened" => raised[idx] # "none"
    /\ pc = "main" /\ pc' = "open_r" =>
          /\ \A j \in Files : j < idx => returned[j] # "none"
          /\ \A j \in Files : j >= idx =>
                returned[j] = "none" /\ disk[j] = orig[j] /\ LinesOf(j) = <<>>

\* C10: the files are processed one at a time in the order of the list:
\* process_file is called for a file only when every earlier file has
\* returned and been reported, and a step of the processing of one file
\* changes neither the content nor the outcome of another.
C10_OneAtATimeInOrder == [][SequentialStep]_vars

\* The second file is being written after the first was fixed
C10_SecondAfterFirst ==
    /\ idx = 2
    /\ pc = "write"
    /\ returned[1] = "True"
    /\ disk[1] # orig[1]

(***************************************************************************)
(* Properties of the rewriters, under RewriteSpec.                         *)
(***************************************************************************)
\* The line '<indent>Assert.NotNull(<name>);' that the contracts ask for
ExpectedNotNullLine(indent, var) ==
    indent \o <<"Assert", ".", "NotNull", "(">> \o var \o <<")", ";">>

\* The indentation of a statement: its leading whitespace after the last
\* line break
LineIndent(ws) ==
    LET RECURSIVE AfterBreak(_)
        AfterBreak(k) ==
            IF k >= 1 /\ ws[k] # "\n" THEN AfterBreak(k - 1) ELSE k
    IN  SubSeq(ws, AfterBreak(Len(ws)) + 1, Len(ws))

\* t[from..], the text from position from on
From(t, from) == SubSeq(t, from, Len(t))

\* C5: a text with exactly one read-by-id match whose right-hand side holds
\* no "=" is rewritten to the same text with "?" put after the type of the
\* statement, the rest of the statement as it was, and the line
\* '<indent>Assert.NotNull(<name>);' put after it.
C5_ReadByIdOnlyTypeChanged ==
    (/\ pc = "rewrite"
     /\ applied = <<"r">>
     /\ Len(ReadByIdMatches(original)) = 1
     /\ "=" \notin Range(ReadByIdMatches(original)[1].rhs))
    =>
    LET m       == ReadByIdMatches(original)[1]
        typeEnd == m.from + Len(m.indent) + Len(m.type)
    IN  content = Slice(original, 1, typeEnd) \o <<"?">>
                      \o Slice(original, typeEnd, m.to) \o <<"\n">>
                      \o ExpectedNotNullLine(m.indent, m.var)
                      \o From(original, m.to)

\* C6: a text with exactly one first-or-default match, wherever the
\* statement sits, is rewritten to the same text with the statement replaced
\* by '<indent><Type>? <name> = <rhs>;' and, on the very next line, with no
\* blank line between, the line 'Assert.NotNull(<name>);' at the
\* indentation of the statement.
C6_FirstOrDefaultNoBlankLine ==
    (/\ pc = "rewrite"
     /\ applied = <<"f">>
     /\ Len(FirstOrDefaultMatches(original)) = 1)
    =>
    LET m == FirstOrDefaultMatches(original)[1]
    IN  content = Slice(original, 1, m.from)
                      \o m.indent \o m.type \o <<"?", " ">> \o m.var
                      \o <<" ", "=", " ">> \o m.rhs \o <<";", "\n">>
                      \o ExpectedNotNullLine(LineIndent(m.indent), m.var)
                      \o From(original, m.to)

\* C7: both rewriters applied to a text that both were already applied to
\* change nothing.
C7_SecondPassChangesNothing ==
    pc = "rewrite" /\ applied = <<"r", "f", "r", "f">> =>
        content = Transform(original)

\* The ends of the matches of a rule in t
MatchEnds(rule, t) ==
    {p \in 1..(Len(t) + 1) :
        \E q \in 1..Len(t) : MatchAt(rule, t, q).ok /\ MatchAt(rule, t, q).to = p}

\* C9: no statement, the text up to one ";", is matched by both patterns,
\* and the rewriters applied in the opposite order give what they give in
\* the order of process_file.
C9_ExclusiveAndOrderFree ==
    /\ pc = "rewrite" /\ applied = <<>> =>
          MatchEnds("r", original) \cap MatchEnds("f", original) = {}
    /\ pc = "rewrite" /\ applied = <<"f", "r">> =>
          content = Transform(original)

====
